---- MODULE Spec2Model ----
(***************************************************************************)
(* Model of src/data_processing/data_processing.py: the two reconciliation *)
(* engines DataList.store_data and Measurements.store_data together with   *)
(* the type coercions they call, and the Shot ordering with the sorted     *)
(* shot_list of Shots.                                                     *)
(*                                                                         *)
(* Python values are records [k, s, n, e]: k is the Python type, s the     *)
(* characters of a str (a sequence of one-character strings), n and e the  *)
(* numeric payload.  Identifiers (dict keys, names, time ids) are TLA+     *)
(* strings; NoId stands for a None identifier.                             *)
(***************************************************************************)
EXTENDS Integers, Sequences, FiniteSets, TLC

VARIABLES
    timestamps,     \* DataList.timestamps: time_id -> cached timestamp
    data_list,      \* DataList.data_list: sequence of DataPoint objects
    update_flag,    \* update_flag of the last DataList.store_data call
    scraped_data,   \* argument of the last DataList.store_data call
    scraped_time,   \* argument of the last DataList.store_data call
    clock,          \* wall clock read by datetime.now()
    outcome,        \* how the last store_data call ended
    measurement_list, \* Measurements.measurement_list
    raw_data,       \* argument of the last Measurements.store_data call
    string_arg,     \* argument of the last convert_to_float call
    result_float,   \* what that call gave: DataList's and Measurements' result
    list,           \* the shots loaded from the shot file, in file order
    shot_list       \* Shots.shot_list

vars == <<timestamps, data_list, update_flag, scraped_data, scraped_time,
          clock, outcome, measurement_list, raw_data,
          string_arg, result_float, list, shot_list>>

dlvars == <<timestamps, data_list, update_flag, scraped_data, scraped_time,
            clock>>

mvars == <<measurement_list, raw_data>>

\* the state of the conversions and of Shots, which no store_data call touches
purevars == <<string_arg, result_float, list, shot_list>>

----------------------------------------------------------------------------
(* Bounds of the model *)

\* largest value of the wall clock
MaxClock == 1
\* largest number of entries of a scraped_data dict
MaxDataLen == 2
\* largest number of entries of a scraped_time dict
MaxTimeLen == 2
\* largest number of entries of a raw_data dict
MaxRawLen == 2
\* largest length of a string handed to convert_to_float on its own
MaxStrLen == 3
\* largest number of shots in a shot file
MaxShots == 3

----------------------------------------------------------------------------
(* Python values *)

NoId == "<None>"

None == [k |-> "None", s |-> << >>, n |-> 0, e |-> 0]

Str(chars) == [k |-> "str", s |-> chars, n |-> 0, e |-> 0]

\* the float m / 10^e, m not divisible by 10 unless e = 0
Float(m, e) == [k |-> "float", s |-> << >>, n |-> m, e |-> e]

\* a datetime: n orders the calendar day, e is the second of the day
Datetime(day, sec) == [k |-> "datetime", s |-> << >>, n |-> day, e |-> sec]

\* a raised exception, as the result of an expression
Raise(exc) == [k |-> exc, s |-> << >>, n |-> 0, e |-> 0]

IsRaise(v) == v.k \in {"ValueError", "KeyError", "TypeError"}

\* datetime.__lt__
datetime_lt(a, b) == a.n < b.n \/ (a.n = b.n /\ a.e < b.e)

Digits == {"0", "1", "2", "3", "4", "5", "6", "7", "8", "9"}

DigitVal(c) ==
    CASE c = "0" -> 0 [] c = "1" -> 1 [] c = "2" -> 2 [] c = "3" -> 3
      [] c = "4" -> 4 [] c = "5" -> 5 [] c = "6" -> 6 [] c = "7" -> 7
      [] c = "8" -> 8 [] c = "9" -> 9

\* int() of a sequence of digit characters (0 for the empty sequence)
RECURSIVE IntOf(_)
IntOf(ds) ==
    IF ds = << >> THEN 0
    ELSE 10 * IntOf(SubSeq(ds, 1, Len(ds) - 1)) + DigitVal(ds[Len(ds)])

\* a dict is a sequence of <<key, value>> pairs in insertion order
Keys(d) == {d[i][1] : i \in 1..Len(d)}

\* index of the first entry of dict d at or after i whose key is key, else 0
RECURSIVE FindFrom(_, _, _)
FindFrom(d, key, i) ==
    IF i > Len(d) THEN 0
    ELSE IF d[i][1] = key THEN i
    ELSE FindFrom(d, key, i + 1)

Get(d, key) == d[FindFrom(d, key, 1)][2]

\* all dicts with at most max entries, keys from ks, the value of key k from vs[k]
Dicts(ks, vs, max) ==
    LET items == UNION {{<<k, v>> : v \in vs[k]} : k \in ks}
    IN  {d \in UNION {[1..n -> items] : n \in 0..max} :
            \A i, j \in 1..Len(d) : d[i][1] = d[j][1] => i = j}

----------------------------------------------------------------------------
(* Type coercion *)

NumericChars == Digits \cup {"."}

\* IsNumericChar that strips the decimal point as well
IsNumericChar_DigitsOnly(c) == c \in Digits

IsNumericChar(c) == c \in NumericChars

IsDot(c) == c = "."

IsDigit(c) == c \in Digits

\* ds without its trailing "0" characters
RECURSIVE StripZeros(_)
StripZeros(ds) ==
    IF ds # << >> /\ ds[Len(ds)] = "0" THEN StripZeros(SubSeq(ds, 1, Len(ds) - 1))
    ELSE ds

\* Python float() of a string of digits and ".": ValueError unless the string
\* holds at least one digit and at most one "."
FloatOf(numeric_string) ==
    LET dots   == SelectSeq(numeric_string, IsDot)
        digits == SelectSeq(numeric_string, IsDigit)
        p      == CHOOSE i \in 1..(Len(numeric_string) + 1) :
                      /\ i <= Len(numeric_string) => numeric_string[i] = "."
                      /\ \A j \in 1..(i - 1) : numeric_string[j] # "."
        whole  == SubSeq(numeric_string, 1, p - 1)
        frac   == StripZeros(SubSeq(numeric_string, p + 1, Len(numeric_string)))
    IN  IF Len(dots) > 1 \/ Len(digits) = 0 THEN Raise("ValueError")
        ELSE Float(IntOf(whole \o frac), Len(frac))

\* re.sub(r"[^0-9.]+", "", string) followed by float()
convert_to_float(string) ==
    IF string.k # "str" THEN Raise("TypeError")
    ELSE LET numeric_string == SelectSeq(string.s, IsNumericChar)
         IN  FloatOf(numeric_string)

\* number of digit characters of s from position i on, up to the first non-digit
RECURSIVE DigitRun(_, _)
DigitRun(s, i) ==
    IF i <= Len(s) /\ s[i] \in Digits THEN 1 + DigitRun(s, i + 1) ELSE 0

\* number of whitespace characters of s from position i on
RECURSIVE SpaceRun(_, _)
SpaceRun(s, i) ==
    IF i <= Len(s) /\ s[i] = " " THEN 1 + SpaceRun(s, i + 1) ELSE 0

\* The strptime format is matched field by field.  A parse state is
\* [ok, pos, vals]: whether the text matched so far, the next position, and
\* the numbers of the fields read.

\* a one- or two-digit field at position i: two digits with a value in lo..hi,
\* or one digit lo..9; next is the position after the field
Field(s, i, lo, hi) ==
    LET r == DigitRun(s, i)
        v == IntOf(SubSeq(s, i, i + r - 1))
    IN  [ok |-> r \in {1, 2} /\ v >= lo /\ v <= hi, val |-> v, next |-> i + r]

\* the %d field also accepts a space followed by one digit 1..9
DayField(s, i) ==
    IF i + 1 <= Len(s) /\ s[i] = " " /\ s[i + 1] \in (Digits \ {"0"})
    THEN [ok |-> TRUE, val |-> DigitVal(s[i + 1]), next |-> i + 2]
    ELSE Field(s, i, 1, 31)

\* %Y: exactly four digits
TakeYear(s) ==
    IF DigitRun(s, 1) >= 4
    THEN [ok |-> TRUE, pos |-> 5, vals |-> <<IntOf(SubSeq(s, 1, 4))>>]
    ELSE [ok |-> FALSE, pos |-> 1, vals |-> <<0>>]

\* %m, %H, %M, %S
TakeField(s, st, lo, hi) ==
    LET f == Field(s, st.pos, lo, hi)
    IN  [ok |-> st.ok /\ f.ok, pos |-> f.next, vals |-> Append(st.vals, f.val)]

\* %d
TakeDay(s, st) ==
    LET f == DayField(s, st.pos)
    IN  [ok |-> st.ok /\ f.ok, pos |-> f.next, vals |-> Append(st.vals, f.val)]

\* a literal character of the format
Expect(s, st, c) ==
    [ok |-> st.ok /\ st.pos <= Len(s) /\ s[st.pos] = c, pos |-> st.pos + 1,
     vals |-> st.vals]

\* the space of the format matches one or more whitespace characters
SkipSpaces(s, st) ==
    LET n == SpaceRun(s, st.pos)
    IN  [ok |-> st.ok /\ n >= 1, pos |-> st.pos + n, vals |-> st.vals]

IsLeap(y) == (y % 4 = 0 /\ y % 100 # 0) \/ y % 400 = 0

DaysInMonth(y, m) ==
    IF m = 2 THEN (IF IsLeap(y) THEN 29 ELSE 28)
    ELSE IF m \in {4, 6, 9, 11} THEN 30 ELSE 31

\* the whole text must match, and the fields must form a date
MakeDatetime(s, st) ==
    IF /\ st.ok
       /\ st.pos = Len(s) + 1
       /\ st.vals[1] >= 1
       /\ st.vals[3] <= DaysInMonth(st.vals[1], st.vals[2])
    THEN Datetime((st.vals[1] * 13 + st.vals[2]) * 32 + st.vals[3],
                  (st.vals[4] * 60 + st.vals[5]) * 60 + st.vals[6])
    ELSE Raise("ValueError")

\* datetime.strptime(s, "%Y-%m-%d %H:%M:%S") on the characters s
Strptime(s) ==
    MakeDatetime(s,
      TakeField(s, Expect(s,
        TakeField(s, Expect(s,
          TakeField(s, SkipSpaces(s,
            TakeDay(s, Expect(s,
              TakeField(s, Expect(s, TakeYear(s), "-"), 1, 12),
            "-"))),
          0, 23), ":"),
        0, 59), ":"),
      0, 59))

\* datetime.strptime(s, "%Y-%m-%dT%H:%M:%SZ") on the characters s
StrptimeZ(s) ==
    MakeDatetime(s,
      Expect(s,
        TakeField(s, Expect(s,
          TakeField(s, Expect(s,
            TakeField(s, Expect(s,
              TakeDay(s, Expect(s,
                TakeField(s, Expect(s, TakeYear(s), "-"), 1, 12),
              "-")),
            "T"), 0, 23), ":"),
          0, 59), ":"),
        0, 59),
      "Z"))

\* DataList.convert_to_date
convert_to_date(value) ==
    IF value.k # "str" THEN Raise("TypeError") ELSE Strptime(value.s)

\* convert_values that converts every type but 'string' to float
convert_values_FloatElse(value, value_type) ==
    IF value_type = "string"
    THEN (IF value.k = "None" THEN Str(<<"N", "o", "n", "e">>) ELSE value)
    ELSE convert_to_float(value)

\* DataList.convert_values
convert_values(value, value_type) ==
    IF value_type = "float" THEN convert_to_float(value)
    ELSE IF value_type = "string"
         THEN (IF value.k = "None" THEN Str(<<"N", "o", "n", "e">>) ELSE value)
    ELSE value

----------------------------------------------------------------------------
(* Inputs: raw strings, snapshots and configurations *)

Chars12_3V == <<"1", "2", ".", "3", " ", "V">>

CharsNA == <<"N", "/", "A">>

Chars7 == <<"7">>

\* "2023-01-01 00:00:00"
CharsT0 == <<"2", "0", "2", "3", "-", "0", "1", "-", "0", "1", " ",
             "0", "0", ":", "0", "0", ":", "0", "0">>

\* "2023-01-01 00:05:00"
CharsT5 == <<"2", "0", "2", "3", "-", "0", "1", "-", "0", "1", " ",
             "0", "0", ":", "0", "5", ":", "0", "0">>

TimeIds == {"t1", "t2"}

SourceIds == {"a", "b"}

\* raw time values a scrape may present for each time id
RawTimes == [t \in TimeIds |->
                IF t = "t1" THEN {None, Str(CharsT0), Str(CharsT5), Str(CharsNA)}
                ELSE {Str(CharsT5)}]

\* raw values a scrape may present for each source id
RawValues == [i \in SourceIds |->
                 IF i = "a" THEN {Str(Chars12_3V), Str(CharsNA)}
                 ELSE {Str(Chars7), Str(CharsNA)}]

ScrapedTimes == Dicts(TimeIds, RawTimes, MaxTimeLen)

ScrapedDatas == Dicts(SourceIds, RawValues, MaxDataLen)

\* parsed contents of measurement files for DataList: the key "timestamps"
\* maps to the list of time ids, any other key to the description of a point
DataFormats == {
    << <<"timestamps", <<"t1", "t2">> >>,
       <<"a", [data_type |-> "float", source_time |-> "t1"]>>,
       <<"b", [data_type |-> "float"]>> >>,
    << <<"timestamps", <<"t1", "t2">> >>,
       <<"x", [data_type |-> "string", source_id |-> "a", source_time |-> "t1"]>>,
       <<"y", [data_type |-> "int", source_id |-> "a", source_time |-> "t2",
               tags |-> "unit"]>> >>,
    << <<"a", [data_type |-> "float", source_time |-> "t1"]>>,
       <<"timestamps", <<"t1", "t2">> >>,
       <<"b", [data_type |-> "float", source_time |-> "t1"]>> >>,
    << <<"timestamps", <<"t1">> >>,
       <<"b", [data_type |-> "float"]>>,
       <<"a", [data_type |-> "float", source_time |-> "t2"]>> >> }

----------------------------------------------------------------------------
(* DataPoint and DataList *)

\* DataPoint.__init__
DataPoint(name, value) ==
    [name      |-> name,
     data_type |-> value.data_type,
     value     |-> None,
     time      |-> None,
     source_id |-> IF "source_id" \in DOMAIN value THEN value.source_id ELSE name,
     tags      |-> IF "tags" \in DOMAIN value THEN value.tags ELSE NoId,
     time_id   |-> IF "source_time" \in DOMAIN value THEN value.source_time ELSE NoId]

\* DataList.__init__, the loop over data_format: the DataPoints in file order
RECURSIVE InitDataList(_, _)
InitDataList(data_format, i) ==
    IF i > Len(data_format) THEN << >>
    ELSE IF data_format[i][1] = "timestamps" THEN InitDataList(data_format, i + 1)
    ELSE <<DataPoint(data_format[i][1], data_format[i][2])>>
             \o InitDataList(data_format, i + 1)

\* DataList.__init__, the loop over data_format: every declared time id -> None
InitTimestamps(data_format) ==
    LET declared == UNION {{data_format[i][2][j] : j \in 1..Len(data_format[i][2])}
                           : i \in {i \in 1..Len(data_format) :
                                        data_format[i][1] = "timestamps"}}
    IN  [t \in declared |-> None]

\* store_data, first loop: every declared time id -> False
InitFlags(ts) == [t \in DOMAIN ts |-> FALSE]

\* IsNewTime without the comparison against the cached timestamp
IsNewTime_Always(timestamp, cached) == timestamp # None

\* IsNewTime without the test for None
IsNewTime_NoneToo(timestamp, cached) == timestamp # cached

\* store_data, the test of the second loop: the scraped timestamp is new
IsNewTime(timestamp, cached) == timestamp # cached /\ timestamp # None

\* store_data, second loop from entry i of scraped_time on.  An undeclared
\* time id raises KeyError in self.timestamps[time_id] and ends the call.
RECURSIVE UpdateTimestamps(_, _, _, _)
UpdateTimestamps(ts, flags, st, i) ==
    IF i > Len(st) THEN [timestamps |-> ts, update_flag |-> flags, exc |-> "none"]
    ELSE LET time_id   == st[i][1]
             timestamp == st[i][2]
         IN  IF time_id \notin DOMAIN ts
             THEN [timestamps |-> ts, update_flag |-> flags, exc |-> "KeyError"]
             ELSE IF IsNewTime(timestamp, ts[time_id])
             THEN UpdateTimestamps([ts EXCEPT ![time_id] = timestamp],
                                   [flags EXCEPT ![time_id] = TRUE], st, i + 1)
             ELSE UpdateTimestamps(ts, flags, st, i + 1)

\* SearchValue whose break leaves the loop after the first entry, match or not
SearchValue_BreakEarly(sd, datapoint) ==
    LET r == convert_values(sd[1][2], datapoint.data_type)
    IN  IF Len(sd) = 0 \/ sd[1][1] # datapoint.source_id THEN None
        ELSE IF r.k = "ValueError" THEN None
        ELSE r

\* SearchValue that stores the raw value when the conversion raises ValueError
SearchValue_KeepsRaw(sd, datapoint) ==
    LET i == FindFrom(sd, datapoint.source_id, 1)
        r == convert_values(sd[i][2], datapoint.data_type)
    IN  IF i = 0 THEN None
        ELSE IF r.k = "ValueError" THEN sd[i][2]
        ELSE r

\* store_data, the inner loop over scraped_data for one DataPoint: the
\* converted value of the first entry whose id is the source_id, None when
\* there is none or the conversion raises ValueError; any other exception
\* is not caught
SearchValue(sd, datapoint) ==
    LET i == FindFrom(sd, datapoint.source_id, 1)
        r == convert_values(sd[i][2], datapoint.data_type)
    IN  IF i = 0 THEN None
        ELSE IF r.k = "ValueError" THEN None
        ELSE r

\* ResetValue that keeps the value of the cycle before
ResetValue_Keep(datapoint) == datapoint

\* ResetValue that builds the DataPoint anew from its name and type
ResetValue_Rebuild(datapoint) ==
    DataPoint(datapoint.name, [data_type |-> datapoint.data_type])

\* store_data, the first statement of the loop over data_list
ResetValue(datapoint) == [datapoint EXCEPT !.value = None]

\* StampTime that leaves the time of the cycle before
StampTime_Never(datapoint, now) == datapoint

\* store_data, datapoint.time = datetime.now()
StampTime(datapoint, now) == [datapoint EXCEPT !.time = now]

\* store_data, the loop over data_list from DataPoint i on
RECURSIVE UpdateDataPoints(_, _, _, _, _)
UpdateDataPoints(dl, i, flags, sd, now) ==
    IF i > Len(dl) THEN [data_list |-> dl, exc |-> "none"]
    ELSE LET reset   == ResetValue(dl[i])
             stamped == StampTime(reset, now)
             found   == SearchValue(sd, reset)
         IN  IF reset.time_id = NoId
             THEN IF IsRaise(found)
                  THEN [data_list |-> [dl EXCEPT ![i] = stamped], exc |-> found.k]
                  ELSE UpdateDataPoints(
                           [dl EXCEPT ![i] = [stamped EXCEPT !.value = found]],
                           i + 1, flags, sd, now)
             ELSE IF reset.time_id \notin DOMAIN flags
             THEN [data_list |-> [dl EXCEPT ![i] = reset], exc |-> "KeyError"]
             ELSE IF flags[reset.time_id]
             THEN IF IsRaise(found)
                  THEN [data_list |-> [dl EXCEPT ![i] = reset], exc |-> found.k]
                  ELSE UpdateDataPoints([dl EXCEPT ![i] = [reset EXCEPT !.value = found]],
                                        i + 1, flags, sd, now)
             ELSE UpdateDataPoints([dl EXCEPT ![i] = reset], i + 1, flags, sd, now)

\* datetime.now()
Now == Datetime(0, clock)

\* DataList.store_data(scraped_data, scraped_time); t is what the loop over
\* scraped_time leaves, p what the loop over data_list leaves
store_data(sd, st) ==
    \E t \in {UpdateTimestamps(timestamps, InitFlags(timestamps), st, 1)} :
    \E p \in {UpdateDataPoints(data_list, 1, t.update_flag, sd, Now)} :
        /\ scraped_data' = sd
        /\ scraped_time' = st
        /\ timestamps' = t.timestamps
        /\ update_flag' = t.update_flag
        /\ IF t.exc # "none"
           THEN /\ data_list' = data_list
                /\ outcome' = t.exc
           ELSE /\ data_list' = p.data_list
                /\ outcome' = IF p.exc = "none" THEN "returned" ELSE p.exc
        /\ UNCHANGED <<clock, measurement_list, raw_data>>
        /\ UNCHANGED purevars

\* a cycle of the external scheduler: one call of DataList.store_data
StoreData ==
    \E sd \in ScrapedDatas, st \in ScrapedTimes : store_data(sd, st)

\* the wall clock advances between calls
Tick ==
    /\ clock < MaxClock
    /\ clock' = clock + 1
    /\ UNCHANGED <<timestamps, data_list, update_flag, scraped_data, scraped_time,
                   outcome, measurement_list, raw_data>>
    /\ UNCHANGED purevars

\* the DataList after DataList.__init__, before the first cycle
Init ==
    /\ \E data_format \in DataFormats :
           /\ data_list = InitDataList(data_format, 1)
           /\ timestamps = InitTimestamps(data_format)
    /\ update_flag = InitFlags(timestamps)
    /\ scraped_data = << >>
    /\ scraped_time = << >>
    /\ clock = 0
    /\ outcome = "init"
    /\ measurement_list = << >>
    /\ raw_data = << >>
    /\ string_arg = << >>
    /\ result_float = << >>
    /\ list = << >>
    /\ shot_list = << >>

Next == StoreData \/ Tick

Spec == Init /\ [][Next]_vars

----------------------------------------------------------------------------
(* Measurement and Measurements *)

\* Measurements.convert_to_float
Measurements_convert_to_float(string) ==
    IF string.k # "str" THEN Raise("TypeError")
    ELSE LET numeric_string == SelectSeq(string.s, IsNumericChar)
         IN  FloatOf(numeric_string)

\* Measurements.convert_to_date
Measurements_convert_to_date(value) ==
    IF value.k # "str" THEN Raise("TypeError") ELSE Strptime(value.s)

\* Measurements.convert_values
Measurements_convert_values(value, value_type) ==
    IF value_type = "float" THEN Measurements_convert_to_float(value)
    ELSE IF value_type = "string"
         THEN (IF value.k = "None" THEN Str(<<"N", "o", "n", "e">>) ELSE value)
    ELSE value

\* Measurement.__init__
Measurement(timestamp, dict_template) ==
    [timestamp_id  |-> timestamp,
     dict_template |-> dict_template,
     id_list       |-> <<timestamp>>
                         \o [i \in 1..Len(dict_template) |-> dict_template[i][1]],
     time          |-> None,
     data          |-> << >>]

\* Measurements.__init__: one Measurement per timestamp of the file, in order
InitMeasurements(data_format) ==
    [i \in 1..Len(data_format) |-> Measurement(data_format[i][1], data_format[i][2])]

\* parsed contents of measurement files for Measurements:
\* timestamp id -> {field id -> declared type}
MeasurementFormats == {
    << <<"t1", << <<"a", "float">>, <<"b", "float">> >> >> >>,
    << <<"t1", << <<"a", "string">> >> >>,
       <<"t2", << <<"b", "int">> >> >> >> }

\* raw_data holds the scraped times and the scraped values in one dict
RawDatas == Dicts(TimeIds \cup SourceIds,
                  [k \in TimeIds \cup SourceIds |->
                      IF k \in TimeIds THEN RawTimes[k] ELSE RawValues[k]],
                  MaxRawLen)

\* dict.update({k: v})
DictUpdate(d, k, v) ==
    IF k \in Keys(d) THEN [d EXCEPT ![FindFrom(d, k, 1)] = <<k, v>>]
    ELSE Append(d, <<k, v>>)

\* store_data, the loop over raw_data for one Measurement from entry i on:
\* the Measurement afterwards and the exception that ended the call, if any
RECURSIVE ScanRawData(_, _, _)
ScanRawData(measurement, rd, i) ==
    IF i > Len(rd) THEN [measurement |-> measurement, exc |-> "none"]
    ELSE LET key   == rd[i][1]
             value == rd[i][2]
             time  == Measurements_convert_to_date(value)
             j     == FindFrom(measurement.dict_template, key, 1)
             corrected_value ==
                 Measurements_convert_values(value, measurement.dict_template[j][2])
         IN  IF measurement.timestamp_id = key
             THEN IF IsRaise(time)
                  THEN [measurement |-> measurement, exc |-> time.k]
                  ELSE IF time = measurement.time \/ time = None
                  THEN [measurement |-> measurement, exc |-> "none"]
                  ELSE ScanRawData([measurement EXCEPT !.time = time], rd, i + 1)
             ELSE IF j = 0 THEN ScanRawData(measurement, rd, i + 1)
             ELSE IF corrected_value.k = "ValueError"
             THEN ScanRawData(measurement, rd, i + 1)
             ELSE IF IsRaise(corrected_value)
             THEN [measurement |-> measurement, exc |-> corrected_value.k]
             ELSE ScanRawData(
                      [measurement EXCEPT
                           !.data = DictUpdate(@, key, corrected_value)],
                      rd, i + 1)

\* ResetData that keeps the data of the cycle before
ResetData_Keep(measurement) == measurement

\* store_data, measurement.data = {}
ResetData(measurement) == [measurement EXCEPT !.data = << >>]

\* store_data, the loop over measurement_list from Measurement i on
RECURSIVE UpdateMeasurements(_, _, _)
UpdateMeasurements(ml, i, rd) ==
    IF i > Len(ml) THEN [measurement_list |-> ml, exc |-> "none"]
    ELSE LET r == ScanRawData(ResetData(ml[i]), rd, 1)
             updated == [ml EXCEPT ![i] = r.measurement]
         IN  IF r.exc # "none" THEN [measurement_list |-> updated, exc |-> r.exc]
             ELSE UpdateMeasurements(updated, i + 1, rd)

\* Measurements.store_data(raw_data)
Measurements_store_data(rd) ==
    \E r \in {UpdateMeasurements(measurement_list, 1, rd)} :
        /\ raw_data' = rd
        /\ measurement_list' = r.measurement_list
        /\ outcome' = IF r.exc = "none" THEN "returned" ELSE r.exc
        /\ UNCHANGED dlvars
        /\ UNCHANGED purevars

\* a cycle of the external scheduler: one call of Measurements.store_data
MStoreData == \E rd \in RawDatas : Measurements_store_data(rd)

\* the Measurements after Measurements.__init__, before the first cycle
InitM ==
    /\ \E data_format \in MeasurementFormats :
           measurement_list = InitMeasurements(data_format)
    /\ raw_data = << >>
    /\ outcome = "init"
    /\ timestamps = << >>
    /\ data_list = << >>
    /\ update_flag = << >>
    /\ scraped_data = << >>
    /\ scraped_time = << >>
    /\ clock = 0
    /\ string_arg = << >>
    /\ result_float = << >>
    /\ list = << >>
    /\ shot_list = << >>

NextM == MStoreData

SpecM == InitM /\ [][NextM]_vars

----------------------------------------------------------------------------
(* convert_to_float on its own *)

\* the characters of the strings handed to convert_to_float
Alphabet == {"0", "1", "2", ".", "-", "e", " "}

\* every string over the alphabet up to the bound, and the two of the manual
RawStrings ==
    {Str(cs) : cs \in UNION {[1..n -> Alphabet] : n \in 0..MaxStrLen}}
        \cup {Str(Chars12_3V), Str(CharsNA)}

\* one call of DataList.convert_to_float and of Measurements.convert_to_float
\* on the same string
ConvertToFloat ==
    /\ result_float' = <<convert_to_float(string_arg),
                         Measurements_convert_to_float(string_arg)>>
    /\ outcome' = IF IsRaise(convert_to_float(string_arg))
                  THEN convert_to_float(string_arg).k ELSE "returned"
    /\ UNCHANGED <<string_arg, list, shot_list>>
    /\ UNCHANGED dlvars
    /\ UNCHANGED mvars

\* a string is at hand, no conversion has been called
InitF ==
    /\ string_arg \in RawStrings
    /\ result_float = << >>
    /\ outcome = "init"
    /\ timestamps = << >>
    /\ data_list = << >>
    /\ update_flag = << >>
    /\ scraped_data = << >>
    /\ scraped_time = << >>
    /\ clock = 0
    /\ measurement_list = << >>
    /\ raw_data = << >>
    /\ list = << >>
    /\ shot_list = << >>

NextF == ConvertToFloat

SpecF == InitF /\ [][NextF]_vars

----------------------------------------------------------------------------
(* Shot and Shots *)

\* "2023-01-01 00:09:00"
CharsT9 == [CharsT5 EXCEPT ![16] = "9"]

\* the time of chars as it is written in a shot file: "2023-01-01T00:00:00Z"
IsoOf(chars) ==
    [i \in 1..(Len(chars) + 1) |->
        IF i = 11 THEN "T" ELSE IF i = Len(chars) + 1 THEN "Z" ELSE chars[i]]

\* the entries a shot file may hold: {tags: ..., time: {start: ..., stop: ...}}
ShotEntries ==
    {[tags |-> e[1], start |-> Str(st), stop |-> Str(e[2])] :
        st \in {IsoOf(CharsT0), IsoOf(CharsT5), CharsT0},
        e \in {<<"p", IsoOf(CharsT5)>>, <<"p", IsoOf(CharsT9)>>,
               <<"q", IsoOf(CharsT9)>>}}

\* the value of the key 'shots' of a shot file
ShotFiles == UNION {[1..n -> ShotEntries] : n \in 0..MaxShots}

\* Shot.__init__: the Shot, or the exception strptime raised
Shot(tags, start_time, stop_time) ==
    LET start == IF start_time.k # "str" THEN Raise("TypeError")
                 ELSE StrptimeZ(start_time.s)
        stop  == IF stop_time.k # "str" THEN Raise("TypeError")
                 ELSE StrptimeZ(stop_time.s)
    IN  [exc        |-> IF IsRaise(start) THEN start.k
                        ELSE IF IsRaise(stop) THEN stop.k ELSE "none",
         tags       |-> tags,
         start_time |-> start,
         stop_time  |-> stop]

\* Shot_lt that orders by stop_time
Shot_lt_ByStop(self, other) == datetime_lt(self.stop_time, other.stop_time)

\* Shot.__lt__
Shot_lt(self, other) == datetime_lt(self.start_time, other.start_time)

\* Shot.__eq__
Shot_eq(self, other) == self.start_time = other.start_time

\* Shot.__gt__
Shot_gt(self, other) == datetime_lt(other.start_time, self.start_time)

\* sorted(): x is put behind the last shot of the sorted run that it is not
\* less than; only __lt__ is consulted
RECURSIVE InsertShot(_, _)
InsertShot(run, x) ==
    IF run # << >> /\ Shot_lt(x, run[Len(run)])
    THEN Append(InsertShot(SubSeq(run, 1, Len(run) - 1), x), run[Len(run)])
    ELSE Append(run, x)

\* sorted(shots): a stable sort by __lt__
RECURSIVE Sorted(_)
Sorted(shots) ==
    IF shots = << >> THEN << >>
    ELSE InsertShot(Sorted(SubSeq(shots, 1, Len(shots) - 1)), shots[Len(shots)])

\* Shots.__init__, the loop: the Shot of every entry, in file order
LoadShots(entries) ==
    [i \in 1..Len(entries) |->
        Shot(entries[i].tags, entries[i].start, entries[i].stop)]

\* Shots.__init__: a Shot that raises ends the construction, shot_list is
\* never assigned; otherwise shot_list is the sorted list
ShotsInit ==
    LET loaded == LoadShots(list)
        failed == {i \in 1..Len(loaded) : loaded[i].exc # "none"}
        first  == CHOOSE i \in failed : \A j \in failed : i <= j
    IN  /\ IF failed # {}
           THEN /\ outcome' = loaded[first].exc
                /\ shot_list' = << >>
           ELSE /\ outcome' = "returned"
                /\ shot_list' = Sorted(loaded)
        /\ UNCHANGED <<string_arg, result_float, list>>
        /\ UNCHANGED dlvars
        /\ UNCHANGED mvars

\* the shot file has been read, no Shots object exists yet
InitS ==
    /\ list \in ShotFiles
    /\ shot_list = << >>
    /\ outcome = "init"
    /\ timestamps = << >>
    /\ data_list = << >>
    /\ update_flag = << >>
    /\ scraped_data = << >>
    /\ scraped_time = << >>
    /\ clock = 0
    /\ measurement_list = << >>
    /\ raw_data = << >>
    /\ string_arg = << >>
    /\ result_float = << >>

NextS == ShotsInit

SpecS == InitS /\ [][NextS]_vars

----------------------------------------------------------------------------
(* Measurements and DataList side by side *)

\* the DataPoint declarations of one timestamp of a Measurements file: every
\* field with its type, bound to the timestamp
FlatFields(group) ==
    [j \in 1..Len(group[2]) |->
        <<group[2][j][1],
          [data_type |-> group[2][j][2], source_time |-> group[1]]>>]

RECURSIVE FlatPoints(_, _)
FlatPoints(data_format, i) ==
    IF i > Len(data_format) THEN << >>
    ELSE FlatFields(data_format[i]) \o FlatPoints(data_format, i + 1)

\* the DataList file that declares what the Measurements file data_format
\* declares: its timestamps, then its fields
FlatOf(data_format) ==
    << <<"timestamps", [i \in 1..Len(data_format) |-> data_format[i][1]]>> >>
        \o FlatPoints(data_format, 1)

\* the entries of the dict d whose key is in ks, in the order of d
RECURSIVE Restrict(_, _)
Restrict(d, ks) ==
    IF d = << >> THEN << >>
    ELSE IF d[1][1] \in ks THEN <<d[1]>> \o Restrict(Tail(d), ks)
    ELSE Restrict(Tail(d), ks)

\* one scrape handed to both objects: Measurements.store_data(rd), and
\* DataList.store_data with the entries of rd under declared time ids as
\* scraped_time and all others as scraped_data
StoreBoth(rd) ==
    \E sd \in {Restrict(rd, Keys(rd) \ DOMAIN timestamps)} :
    \E st \in {Restrict(rd, DOMAIN timestamps)} :
    \E t \in {UpdateTimestamps(timestamps, InitFlags(timestamps), st, 1)} :
    \E p \in {UpdateDataPoints(data_list, 1, t.update_flag, sd, Now)} :
    \E r \in {UpdateMeasurements(measurement_list, 1, rd)} :
        /\ raw_data' = rd
        /\ scraped_data' = sd
        /\ scraped_time' = st
        /\ timestamps' = t.timestamps
        /\ update_flag' = t.update_flag
        /\ data_list' = IF t.exc # "none" THEN data_list ELSE p.data_list
        /\ measurement_list' = r.measurement_list
        /\ outcome' = IF t.exc # "none" THEN t.exc
                      ELSE IF p.exc # "none" THEN p.exc
                      ELSE IF r.exc # "none" THEN r.exc
                      ELSE "returned"
        /\ UNCHANGED clock
        /\ UNCHANGED purevars

\* a cycle of the external scheduler, with both objects in use
StoreDataBoth == \E rd \in RawDatas : StoreBoth(rd)

\* a Measurements and the DataList of the corresponding file, both after
\* construction
InitEq ==
    /\ \E data_format \in MeasurementFormats :
           /\ measurement_list = InitMeasurements(data_format)
           /\ data_list = InitDataList(FlatOf(data_format), 1)
           /\ timestamps = InitTimestamps(FlatOf(data_format))
    /\ update_flag = InitFlags(timestamps)
    /\ raw_data = << >>
    /\ scraped_data = << >>
    /\ scraped_time = << >>
    /\ clock = 0
    /\ outcome = "init"
    /\ string_arg = << >>
    /\ result_float = << >>
    /\ list = << >>
    /\ shot_list = << >>

NextEq == StoreDataBoth

SpecEq == InitEq /\ [][NextEq]_vars

----------------------------------------------------------------------------
(* A process that holds either object *)

\* store_data is called on the DataList that was constructed.  The clock is
\* at rest here: store_data only writes it into DataPoint.time and never
\* reads a time back.
DataListCycle == data_list # << >> /\ StoreData

\* store_data is called on the Measurements that was constructed
MeasurementsCycle == measurement_list # << >> /\ MStoreData

\* the process constructs a DataList or a Measurements
InitU == Init \/ InitM

NextU == DataListCycle \/ MeasurementsCycle

SpecU == InitU /\ [][NextU]_vars

----------------------------------------------------------------------------
(* Vocabulary of the claims *)

\* the last store_data call returned (it did not raise)
Returned == outcome = "returned"

\* a step that is a call of DataList.store_data (Tick alone moves the clock)
CycleStep == clock' = clock

Points == 1..Len(data_list)

Measured == 1..Len(measurement_list)

Timed(p) == p.time_id # NoId

\* the snapshot sd holds a value for p's source_id and it converts
Convertible(sd, p) ==
    /\ p.source_id \in Keys(sd)
    /\ ~IsRaise(convert_values(Get(sd, p.source_id), p.data_type))

\* what the snapshot sd gives p: the converted value, or None
Resolved(sd, p) ==
    IF Convertible(sd, p) THEN convert_values(Get(sd, p.source_id), p.data_type)
    ELSE None

\* p was eligible in the cycle whose flags are flags
Eligible(flags, p) ==
    \/ ~Timed(p)
    \/ p.time_id \in DOMAIN flags /\ flags[p.time_id]

\* the raw time string v does not parse in the format YYYY-MM-DD HH:MM:SS
Unparsable(v) == v.k = "str" /\ convert_to_date(v).k = "ValueError"

\* no timestamp of the cache ts is a string that does not parse
AllParse(ts) == \A t \in DOMAIN ts : ~Unparsable(ts[t])

\* datetime a is earlier than datetime b
Earlier(a, b) == a.n < b.n \/ (a.n = b.n /\ a.e < b.e)

\* the dict d with the entry kv inserted after its first k entries
InsertAt(d, k, kv) == SubSeq(d, 1, k) \o <<kv>> \o SubSeq(d, k + 1, Len(d))

----------------------------------------------------------------------------
(* C1 *)

\* C1: after a store_data call that returned, a DataPoint with time_id set has
\* a value other than None only if its TimeGroup was marked advanced in that
\* call and its source_id was present and convertible in that call's
\* scraped_data; its value is then that conversion.  A value of an earlier
\* cycle never survives a cycle in which the TimeGroup did not advance.
C1_EmittedOnlyWhenAdvanced ==
    Returned =>
        \A i \in Points :
            LET p == data_list[i]
            IN  (Timed(p) /\ p.value # None) =>
                    /\ update_flag[p.time_id]
                    /\ Convertible(scraped_data, p)
                    /\ p.value = Resolved(scraped_data, p)

\* a cycle in which the guard blocked a point whose value was on offer: the
\* TimeGroup has a cached time of an earlier cycle, did not advance, the
\* source_id is present and convertible, and the value is None
C1_Witness ==
    /\ Returned
    /\ \E i \in Points :
           LET p == data_list[i]
           IN  /\ Timed(p)
               /\ timestamps[p.time_id] # None
               /\ ~update_flag[p.time_id]
               /\ Convertible(scraped_data, p)
               /\ p.value = None

----------------------------------------------------------------------------
(* C2 *)

\* the raw time scraped for p's TimeGroup in the call of this step equals the
\* timestamp cached before the call
SameRawTime(p) ==
    /\ Timed(p)
    /\ p.time_id \in DOMAIN timestamps
    /\ p.time_id \in Keys(scraped_time')
    /\ Get(scraped_time', p.time_id) = timestamps[p.time_id]

\* C2 as claimed: if the raw time of a DataPoint's TimeGroup equals the
\* previously cached time, the DataPoint's value and time after the call are
\* what they were before the call.  (Stated for raw times that parse, so that
\* a violation does not rest on an unparsable time having been cached.)
C2_KeepsLastKnownGood ==
    [][(CycleStep /\ outcome' = "returned") =>
          \A i \in Points :
              (SameRawTime(data_list[i])
                   /\ ~Unparsable(timestamps[data_list[i].time_id])) =>
                  /\ data_list'[i].value = data_list[i].value
                  /\ data_list'[i].time = data_list[i].time]_vars

\* C2 as amended: if the raw time of a DataPoint's TimeGroup equals the
\* previously cached time, then after the call the DataPoint's value is None
\* (the reset at the start of the loop stands, the search is skipped) and its
\* time is what it was before the call.
C2_ResetWhenSameRawTime ==
    [][(CycleStep /\ outcome' = "returned") =>
          \A i \in Points :
              SameRawTime(data_list[i]) =>
                  /\ data_list'[i].value = None
                  /\ data_list'[i].time = data_list[i].time]_vars

\* a repeated scrape: the raw time supplied for the TimeGroup is the cached
\* one, the group is not advanced, and the point is None although its
\* source_id is present and convertible
C2_Witness ==
    /\ Returned
    /\ \E i \in Points :
           LET p == data_list[i]
           IN  /\ Timed(p)
               /\ p.time_id \in Keys(scraped_time)
               /\ Get(scraped_time, p.time_id) # None
               /\ Get(scraped_time, p.time_id) = timestamps[p.time_id]
               /\ ~update_flag[p.time_id]
               /\ Convertible(scraped_data, p)
               /\ p.value = None

----------------------------------------------------------------------------
(* C3 *)

\* the call of this step supplies for TimeGroup t a time that is not None and
\* differs from the timestamp cached before the call
Advances(t) ==
    /\ t \in Keys(scraped_time')
    /\ Get(scraped_time', t) # None
    /\ Get(scraped_time', t) # timestamps[t]

\* C3: in every store_data call that returns and for every declared
\* TimeGroup, the group is marked advanced and its cache set to the incoming
\* time exactly when a time is supplied, is not None and differs from the
\* cache; otherwise the cache is unchanged and the group is not marked.  The
\* DataPoints bound to an advanced group are all resolved against the
\* snapshot in that cycle, those bound to a group that did not advance are not.
C3_AdvancedExactlyWhenNew ==
    [][(CycleStep /\ outcome' = "returned") =>
          /\ \A t \in DOMAIN timestamps :
                 IF Advances(t)
                 THEN /\ update_flag'[t]
                      /\ timestamps'[t] = Get(scraped_time', t)
                 ELSE /\ ~update_flag'[t]
                      /\ timestamps'[t] = timestamps[t]
          /\ \A i \in Points :
                 Timed(data_list[i]) =>
                     data_list'[i].value =
                         IF Advances(data_list[i].time_id)
                         THEN Resolved(scraped_data', data_list[i])
                         ELSE None]_vars

\* one cycle in which one TimeGroup presents a new time and a bound point gets
\* its value, while another TimeGroup repeats its cached raw time and is not
\* marked
C3_Witness ==
    /\ Returned
    /\ \E t, u \in DOMAIN timestamps :
           /\ update_flag[t]
           /\ t \in Keys(scraped_time) /\ Get(scraped_time, t) = timestamps[t]
           /\ \E i \in Points : data_list[i].time_id = t /\ data_list[i].value # None
           /\ ~update_flag[u]
           /\ u \in Keys(scraped_time) /\ Get(scraped_time, u) = timestamps[u]

----------------------------------------------------------------------------
(* C4 *)

\* state (1) of C4: the value is this cycle's freshly coerced raw value and
\* the time was updated in this cycle (to the clock of the call for a point
\* without time_id, to the advanced timestamp of its TimeGroup otherwise)
FreshWithTime(i) ==
    LET p == data_list'[i]
    IN  /\ Eligible(update_flag', p)
        /\ Convertible(scraped_data', p)
        /\ p.value = Resolved(scraped_data', p)
        /\ IF Timed(p)
           THEN p.time \in {timestamps'[p.time_id],
                            convert_to_date(timestamps'[p.time_id])}
           ELSE p.time = Now

\* state (2) of C4: value and time are what they were before the call,
\* because the TimeGroup did not advance
UnchangedPrior(i) ==
    /\ ~Eligible(update_flag', data_list'[i])
    /\ data_list'[i].value = data_list[i].value
    /\ data_list'[i].time = data_list[i].time

\* state (3) of C4: the value is None, the point was eligible and its
\* source_id was not found or its raw value did not convert
NoneThoughEligible(i) ==
    /\ Eligible(update_flag', data_list'[i])
    /\ ~Convertible(scraped_data', data_list'[i])
    /\ data_list'[i].value = None

\* C4 as claimed: after every store_data call that returns, every DataPoint
\* is in exactly one of the states (1), (2), (3).  (The three states exclude
\* each other, so exactly one is at least one.  Stated for cycles after which
\* every cached time parses, so that a violation does not rest on an
\* unparsable time having been cached.)
C4_TriState ==
    [][(CycleStep /\ outcome' = "returned" /\ AllParse(timestamps')) =>
          \A i \in Points :
              FreshWithTime(i) \/ UnchangedPrior(i) \/ NoneThoughEligible(i)]_vars

----------------------------------------------------------------------------
(* C5 *)

\* C5 as claimed: no store_data call ends in an exception.
C5_NoExceptionPropagates == outcome \in {"init", "returned"}

----------------------------------------------------------------------------
(* C6 *)

\* C6 as claimed: when the raw time string scraped for a TimeGroup does not
\* parse, the cached timestamp of the group is retained, the group is not
\* marked advanced, and no DataPoint bound to it is given a value.
C6_UnparsableTimeIsNoUpdate ==
    [][CycleStep =>
          \A t \in DOMAIN timestamps :
              (t \in Keys(scraped_time') /\ Unparsable(Get(scraped_time', t))) =>
                  /\ timestamps'[t] = timestamps[t]
                  /\ ~update_flag'[t]
                  /\ \A i \in Points :
                         data_list[i].time_id = t => data_list'[i].value = None]_vars

----------------------------------------------------------------------------
(* C7 *)

\* C7 as claimed, for Measurement.time: whenever the stored timestamp of a
\* Measurement changes from one datetime to another, the new one is strictly
\* later than the old one.
C7_TimeMovesForward ==
    [][\A i \in 1..Len(measurement_list) :
           LET old == measurement_list[i].time
               new == measurement_list'[i].time
           IN  (old # None /\ new # old) => Earlier(old, new)]_vars

----------------------------------------------------------------------------
(* C8 *)

\* C8: in every store_data call that returns, every DataPoint without time_id
\* has its time set to the clock of that call and its value set to the
\* conversion of the raw value under its source_id, or to None when the
\* source_id is absent or the raw value does not convert, whatever the
\* update flags of the TimeGroups are.
C8_UntimedAlwaysRefreshed ==
    [][(CycleStep /\ outcome' = "returned") =>
          \A i \in Points :
              ~Timed(data_list[i]) =>
                  /\ data_list'[i].time = Now
                  /\ data_list'[i].value = Resolved(scraped_data', data_list[i])]_vars

\* a cycle after the clock moved in which no TimeGroup advanced: one point
\* without time_id is stamped with the new clock although nothing was found
\* for it, or holds a converted value
C8_Witness ==
    /\ Returned
    /\ clock > 0
    /\ \A t \in DOMAIN update_flag : ~update_flag[t]
    /\ \E i \in Points :
           /\ ~Timed(data_list[i])
           /\ data_list[i].time = Now
           /\ data_list[i].source_id \notin Keys(scraped_data)
           /\ data_list[i].value = None

----------------------------------------------------------------------------
(* C9 *)

\* C9 as claimed: after a store_data call that returned, a DataPoint with
\* time_id set that holds a value has as its time the timestamp of its
\* TimeGroup, never None.  (Stated for states in which every cached time
\* parses.)
C9_TimeSetWithValue ==
    (Returned /\ AllParse(timestamps)) =>
        \A i \in Points :
            LET p == data_list[i]
            IN  (Timed(p) /\ p.value # None) =>
                    /\ p.time # None
                    /\ p.time \in {timestamps[p.time_id],
                                   convert_to_date(timestamps[p.time_id])}

----------------------------------------------------------------------------
(* C10 *)

\* the DataPoints after the call of this step, had scraped_data also held
\* the entry kv after its first k entries
HadBeenPresent(k, kv) ==
    UpdateDataPoints(data_list, 1, update_flag', InsertAt(scraped_data', k, kv),
                     Now).data_list

\* DataPoint i was eligible in the call of this step and its source_id was
\* absent from scraped_data
EligibleMiss(i) ==
    /\ Eligible(update_flag', data_list[i])
    /\ data_list[i].source_id \notin Keys(scraped_data')

\* C10 as claimed: a DataPoint that is eligible and whose source_id is absent
\* ends the cycle with value None, and the value and time of every other
\* DataPoint are what they would be had the identifier been present.  (Stated
\* for cycles after which every cached time parses.)
C10_MissAffectsNoOther ==
    [][(CycleStep /\ outcome' = "returned" /\ AllParse(timestamps')) =>
          \A i \in Points :
              EligibleMiss(i) =>
                  /\ data_list'[i].value = None
                  /\ \A v \in RawValues[data_list[i].source_id],
                        k \in 0..Len(scraped_data') :
                         LET alt == HadBeenPresent(k, <<data_list[i].source_id, v>>)
                         IN  \A j \in Points \ {i} :
                                 /\ alt[j].value = data_list'[j].value
                                 /\ alt[j].time = data_list'[j].time]_vars

\* C10 as amended: a DataPoint that is eligible and whose source_id is absent
\* ends the cycle with value None, and the value and time of every other
\* DataPoint with a different source_id are what they would be had the
\* identifier been present.
C10_MissAffectsNoOtherSource ==
    [][(CycleStep /\ outcome' = "returned") =>
          \A i \in Points :
              EligibleMiss(i) =>
                  /\ data_list'[i].value = None
                  /\ \A v \in RawValues[data_list[i].source_id],
                        k \in 0..Len(scraped_data') :
                         LET alt == HadBeenPresent(k, <<data_list[i].source_id, v>>)
                         IN  \A j \in Points \ {i} :
                                 data_list[j].source_id # data_list[i].source_id =>
                                     /\ alt[j].value = data_list'[j].value
                                     /\ alt[j].time = data_list'[j].time]_vars

\* a cycle in which an eligible point with time_id misses its source_id and
\* is None while another point is resolved to a value
C10_Witness ==
    /\ Returned
    /\ \E i, j \in Points :
           /\ Timed(data_list[i])
           /\ update_flag[data_list[i].time_id]
           /\ data_list[i].source_id \notin Keys(scraped_data)
           /\ data_list[i].value = None
           /\ j # i
           /\ data_list[j].value # None

----------------------------------------------------------------------------
(* C11 *)

\* the conversion of the raw value v under the declared type ty fails
FailsToConvert(v, ty) == convert_values(v, ty).k = "ValueError"

\* DataPoint p was eligible in the call of this step and the raw value under
\* its source_id did not convert
CoercionFailed(p) ==
    /\ Eligible(update_flag', p)
    /\ p.source_id \in Keys(scraped_data')
    /\ FailsToConvert(Get(scraped_data', p.source_id), p.data_type)

\* the dict d without its entry x
Without(d, x) == SubSeq(d, 1, x - 1) \o SubSeq(d, x + 1, Len(d))

\* entry x of the raw_data of this step is a field of Measurement m
FieldEntry(m, x) == raw_data'[x][1] \in Keys(m.dict_template)

\* the scan of Measurement m reaches entry x of the raw_data of this step:
\* no entry before it is the timestamp of m with the time m has stored
Reached(m, x) ==
    \A y \in 1..(x - 1) :
        raw_data'[y][1] = m.timestamp_id =>
            Measurements_convert_to_date(raw_data'[y][2]) # m.time

\* C11, DataList: in a store_data call that returns, a DataPoint whose raw
\* value fails to convert ends the cycle with value None, and every DataPoint
\* after it in data_list has the value it is due: the conversion of its raw
\* value if it is eligible and the value converts, None otherwise.  In every
\* cycle, whatever happened in the cycles before, an eligible DataPoint with
\* a convertible raw value receives the converted value.
C11_DataListContainsFailure ==
    (CycleStep /\ outcome' = "returned") =>
        \A i \in Points :
            /\ CoercionFailed(data_list[i]) =>
                   /\ data_list'[i].value = None
                   /\ \A j \in Points :
                          j > i =>
                              data_list'[j].value =
                                  IF Eligible(update_flag', data_list[j])
                                  THEN Resolved(scraped_data', data_list[j])
                                  ELSE None
            /\ (Eligible(update_flag', data_list[i])
                    /\ Convertible(scraped_data', data_list[i])) =>
                   data_list'[i].value = Resolved(scraped_data', data_list[i])

\* C11, Measurements: in a store_data call that returns, a field whose raw
\* value fails to convert is absent from data, and the Measurement is
\* otherwise what it would be had raw_data not held the entry; a field that
\* the scan reaches and whose raw value converts is in data with the converted
\* value, whatever happened in the cycles before.
C11_MeasurementsContainsFailure ==
    outcome' = "returned" =>
        \A i \in Measured :
            LET m == measurement_list[i]
            IN  \A x \in 1..Len(raw_data') :
                    LET k  == raw_data'[x][1]
                        v  == raw_data'[x][2]
                    IN  FieldEntry(m, x) =>
                            IF FailsToConvert(v, Get(m.dict_template, k))
                            THEN /\ k \notin Keys(measurement_list'[i].data)
                                 /\ measurement_list'[i] =
                                        ScanRawData(ResetData(m),
                                                    Without(raw_data', x),
                                                    1).measurement
                            ELSE Reached(m, x) =>
                                     /\ k \in Keys(measurement_list'[i].data)
                                     /\ Get(measurement_list'[i].data, k) =
                                            Measurements_convert_values(
                                                v, Get(m.dict_template, k))

\* C11: a coercion failure of one field is contained in that field and that
\* cycle, in DataList.store_data and in Measurements.store_data.
C11_FailureContained ==
    [][C11_DataListContainsFailure /\ C11_MeasurementsContainsFailure]_vars

\* a cycle in which the raw value of one eligible DataPoint did not convert
\* and left it None, while a DataPoint declared after it holds its converted
\* value
C11_Witness ==
    /\ Returned
    /\ \E i, j \in Points :
           LET p == data_list[i]
               q == data_list[j]
           IN  /\ i < j
               /\ Eligible(update_flag, p)
               /\ p.source_id \in Keys(scraped_data)
               /\ convert_values(Get(scraped_data, p.source_id),
                                 p.data_type).k = "ValueError"
               /\ p.value = None
               /\ q.value # None
               /\ q.value = Resolved(scraped_data, q)

----------------------------------------------------------------------------
(* C12 *)

\* the (field, value) pairs of the data of Measurement m
FieldValues(m) == {m.data[x] : x \in 1..Len(m.data)}

\* the (source_id, value) pairs of the DataPoints bound to time id t that
\* hold a value
PointValues(t) ==
    {<<data_list[i].source_id, data_list[i].value>> :
        i \in {i \in Points : data_list[i].time_id = t
                                 /\ data_list[i].value # None}}

\* the time of Measurement m is the cached timestamp of its TimeGroup, parsed
SameTime(m) ==
    IF timestamps[m.timestamp_id] = None THEN m.time = None
    ELSE m.time = convert_to_date(timestamps[m.timestamp_id])

\* C12 as claimed: for a Measurements and the DataList of the corresponding
\* flat schema, fed the same scrapes, after every cycle the data of every
\* Measurement holds the same (field, value) pairs as the DataPoints of its
\* TimeGroup that hold a value, and its time is the cached timestamp of the
\* group.  (Stated for cycles in which neither call raised and after which
\* every cached time parses, so that a violation rests on neither, and for
\* the Measurements whose time entry is in raw_data.)
C12_SameObservableBehaviour ==
    (Returned /\ AllParse(timestamps)) =>
        \A i \in Measured :
            LET m == measurement_list[i]
            IN  m.timestamp_id \in Keys(raw_data) =>
                    /\ FieldValues(m) = PointValues(m.timestamp_id)
                    /\ SameTime(m)

----------------------------------------------------------------------------
(* C13 *)

\* a character that the claim says is kept: a digit or the decimal point
Kept(c) == c \in {"0", "1", "2", "3", "4", "5", "6", "7", "8", "9", "."}

KeptDigit(c) == c \in {"0", "1", "2", "3", "4", "5", "6", "7", "8", "9"}

\* the string without every character that is neither digit nor "."
Remainder(cs) == SelectSeq(cs, Kept)

\* a well-formed unsigned decimal: at least one digit, at most one "."
WellFormed(cs) ==
    /\ \E i \in 1..Len(cs) : cs[i] # "."
    /\ \A i, j \in 1..Len(cs) : (cs[i] = "." /\ cs[j] = ".") => i = j

\* number of digits of cs behind its "." (0 without a ".")
FractionLen(cs) ==
    Cardinality({i \in 1..Len(cs) : \E j \in 1..(i - 1) : cs[j] = "."})

RECURSIVE Pow10(_)
Pow10(n) == IF n = 0 THEN 1 ELSE 10 * Pow10(n - 1)

\* the float r has the value that the decimal cs denotes
DenotedBy(r, cs) ==
    r.n * Pow10(FractionLen(cs)) = IntOf(SelectSeq(cs, KeptDigit)) * Pow10(r.e)

\* C13: convert_to_float of DataList and of Measurements, called on a string
\* over digits, ".", "-", letters and space, succeeds exactly when the string
\* stripped of everything but digits and "." is a well-formed unsigned
\* decimal, and then returns the value of that decimal; otherwise it raises
\* ValueError.  The result is therefore a function of the stripped remainder
\* alone.  "12.3 V" gives 12.3 and "N/A" gives ValueError.
C13_FloatOfRemainder ==
    result_float # << >> =>
        /\ \A k \in 1..2 :
               IF WellFormed(Remainder(string_arg.s))
               THEN /\ result_float[k].k = "float"
                    /\ DenotedBy(result_float[k], Remainder(string_arg.s))
               ELSE result_float[k].k = "ValueError"
        /\ string_arg = Str(Chars12_3V) => result_float[1] = Float(123, 1)
        /\ string_arg = Str(CharsNA) => result_float[1].k = "ValueError"

\* a string that loses a character to the stripping and converts to a float
\* with a fraction
C13_Witness ==
    /\ result_float # << >>
    /\ Len(Remainder(string_arg.s)) < Len(string_arg.s)
    /\ result_float[1].k = "float"
    /\ result_float[1].e > 0
    /\ result_float[2] = result_float[1]

----------------------------------------------------------------------------
(* C14 *)

\* the Shots constructed from the entries of the file, in file order
Loaded == LoadShots(list)

\* how often shot x occurs in the sequence shots
Occurrences(shots, x) == Cardinality({i \in 1..Len(shots) : shots[i] = x})

\* C14: after Shots.__init__ has returned, (a) for any two shots of the list
\* the results of <, > and == are those of their start times alone: shots
\* with the same start time compare as equal and neither is less or greater,
\* whatever their stop times and tags; (b) shot_list holds exactly the loaded
\* shots, each as often as it was loaded; (c) shot_list is in non-decreasing
\* order of start_time.
C14_OrderedByStartOnly ==
    (outcome = "returned" /\ list # << >>) =>
        /\ \A i, j \in 1..Len(shot_list) :
               LET a == shot_list[i]
                   b == shot_list[j]
               IN  /\ Shot_eq(a, b) <=> (a.start_time = b.start_time)
                   /\ Shot_lt(a, b) <=> datetime_lt(a.start_time, b.start_time)
                   /\ Shot_gt(a, b) <=> datetime_lt(b.start_time, a.start_time)
                   /\ a.start_time = b.start_time =>
                          Shot_eq(a, b) /\ ~Shot_lt(a, b) /\ ~Shot_gt(a, b)
        /\ Len(shot_list) = Len(Loaded)
        /\ \A i \in 1..Len(Loaded) :
               Occurrences(shot_list, Loaded[i]) = Occurrences(Loaded, Loaded[i])
        /\ \A i, j \in 1..Len(shot_list) :
               i < j => ~datetime_lt(shot_list[j].start_time, shot_list[i].start_time)

\* a file out of order whose shots were moved by the sort, and that holds two
\* shots with the same start time and different stop time that compare as equal
C14_Witness ==
    /\ outcome = "returned"
    /\ Len(shot_list) = 3
    /\ shot_list # Loaded
    /\ \E i, j \in 1..Len(shot_list) :
           /\ shot_list[i].start_time = shot_list[j].start_time
           /\ shot_list[i].stop_time # shot_list[j].stop_time
           /\ Shot_eq(shot_list[i], shot_list[j])

----------------------------------------------------------------------------
(* C15 *)

\* the call of this step scrapes for Measurement m a time that parses to the
\* time m has stored
SameStoredTime(m) ==
    /\ m.timestamp_id \in Keys(raw_data')
    /\ Measurements_convert_to_date(Get(raw_data', m.timestamp_id)) = m.time

\* C15 as claimed: whenever the time scraped for a Measurement equals its
\* stored time, its data after the call is the empty dict, wherever the
\* timestamp identifier stands among the keys of raw_data.
C15_BlankWhenSameTime ==
    [][outcome' = "returned" =>
          \A i \in Measured :
              SameStoredTime(measurement_list[i]) =>
                  measurement_list'[i].data = << >>]_vars

----------------------------------------------------------------------------
(* C16 *)

\* C16: no step changes the number or the order of the DataPoints, the name,
\* data_type, source_id, tags or time_id of any DataPoint, or the set of
\* declared time ids (the keys of timestamps), whether the call returns or
\* raises; a cycle changes only cached timestamps, values and times.
C16_SchemaReadOnly ==
    [][/\ Len(data_list') = Len(data_list)
       /\ \A i \in Points :
              /\ data_list'[i].name = data_list[i].name
              /\ data_list'[i].data_type = data_list[i].data_type
              /\ data_list'[i].source_id = data_list[i].source_id
              /\ data_list'[i].tags = data_list[i].tags
              /\ data_list'[i].time_id = data_list[i].time_id
       /\ DOMAIN timestamps' = DOMAIN timestamps]_vars

\* a cycle that cached a timestamp and gave a value to a DataPoint that
\* declares tags and a source_id other than its name
C16_Witness ==
    /\ Returned
    /\ \E i \in Points :
           LET p == data_list[i]
           IN  /\ p.tags # NoId
               /\ p.source_id # p.name
               /\ Timed(p)
               /\ timestamps[p.time_id] # None
               /\ p.value # None

----------------------------------------------------------------------------
(* C17 *)

\* DataPoints i and j claim the same source identifier under different
\* TimeGroups, both groups advanced in the last call and the identifier was
\* in its scraped_data
BothClaim(i, j) ==
    LET p == data_list[i]
        q == data_list[j]
    IN  /\ Timed(p) /\ Timed(q)
        /\ p.source_id = q.source_id
        /\ p.time_id # q.time_id
        /\ update_flag[p.time_id] /\ update_flag[q.time_id]
        /\ p.source_id \in Keys(scraped_data)

\* C17 as claimed: when two DataPoints claim one source identifier and both
\* are eligible in a cycle, only the one declared first receives the raw
\* value: the one declared later ends the cycle with None.  (Stated for
\* states in which every cached time parses.)
C17_FirstDeclaredWins ==
    (Returned /\ AllParse(timestamps)) =>
        \A i, j \in Points :
            (i < j /\ BothClaim(i, j)) => data_list[j].value = None

----------------------------------------------------------------------------
(* C18 *)

\* the raw values of the scrapes
AllRawValues == UNION {RawValues[i] : i \in SourceIds}

\* declared types that are neither 'float' nor 'string'
OtherTypes == {"int", "raw", "datetime"}

\* C18: convert_values of DataList and of Measurements returns a raw string
\* as it is under the type 'string' (the text of None is "None") and returns
\* any raw value, None included, as it is under every type other than 'float'
\* and 'string', raising nothing.  Hence after a store_data call that
\* returned, an eligible DataPoint of type 'string' or of an unrecognized type
\* whose source_id is in scraped_data holds exactly the raw value.
C18_StringAndOtherPassThrough ==
    /\ \A v \in AllRawValues :
           /\ convert_values(v, "string") = v
           /\ Measurements_convert_values(v, "string") = v
    /\ convert_values(None, "string") = Str(<<"N", "o", "n", "e">>)
    /\ \A v \in AllRawValues \cup {None}, t \in OtherTypes :
           /\ convert_values(v, t) = v
           /\ Measurements_convert_values(v, t) = v
    /\ Returned =>
           \A i \in Points :
               LET p == data_list[i]
               IN  (/\ p.data_type # "float"
                    /\ Eligible(update_flag, p)
                    /\ p.source_id \in Keys(scraped_data)) =>
                       p.value = Get(scraped_data, p.source_id)

\* a cycle in which a DataPoint of the unrecognized type 'int' was eligible
\* and holds the raw string, which is no number
C18_Witness ==
    /\ Returned
    /\ \E i \in Points :
           LET p == data_list[i]
           IN  /\ p.data_type = "int"
               /\ Eligible(update_flag, p)
               /\ p.source_id \in Keys(scraped_data)
               /\ p.value = Str(CharsNA)

----------------------------------------------------------------------------
(* C19 *)

\* the declared type of field k in the template of Measurement m
TypeOf(m, k) == Get(m.dict_template, k)

\* C19: after every Measurements.store_data call that returned, the data of
\* every Measurement holds each key once, every key is a field of its own
\* dict_template and a key of the raw_data of that call, and the value under
\* it is the conversion of that call's raw value under the declared type.
\* Nothing else is in data, so no entry of an earlier cycle survives.
C19_DataFromLastRawData ==
    Returned =>
        \A i \in Measured :
            LET m == measurement_list[i]
            IN  \A x \in 1..Len(m.data) :
                    LET k == m.data[x][1]
                    IN  /\ \A y \in 1..Len(m.data) : m.data[y][1] = k => y = x
                        /\ k \in Keys(m.dict_template)
                        /\ k \in Keys(raw_data)
                        /\ m.data[x][2] =
                               Measurements_convert_values(Get(raw_data, k),
                                                           TypeOf(m, k))
                        /\ ~IsRaise(m.data[x][2])

\* a call whose raw_data holds one field that converts and one that does not:
\* data holds the converted float alone
C19_Witness ==
    /\ Returned
    /\ \E i \in Measured :
           LET m == measurement_list[i]
           IN  /\ Len(m.data) = 1
               /\ m.data[1][2].k = "float"
               /\ \E k \in Keys(m.dict_template) :
                      k \in Keys(raw_data) /\ k \notin Keys(m.data)

----------------------------------------------------------------------------
(* C20 *)

\* the call of this step supplies a time other than None for TimeGroup t,
\* whose cache is None
FirstTime(t) ==
    /\ timestamps[t] = None
    /\ t \in Keys(scraped_time')
    /\ Get(scraped_time', t) # None

\* C20: every cached timestamp is None after construction; a store_data call
\* that returns and supplies a time other than None for a TimeGroup whose
\* cache is None caches that time and marks the group advanced; and no step,
\* returning or raising, turns a cached timestamp other than None into None.
C20_CacheNoneThenNeverNone ==
    /\ \A t \in DOMAIN timestamps : timestamps[t] = None
    /\ [][/\ (CycleStep /\ outcome' = "returned") =>
                 \A t \in DOMAIN timestamps :
                     FirstTime(t) =>
                         /\ update_flag'[t]
                         /\ timestamps'[t] = Get(scraped_time', t)
          /\ \A t \in DOMAIN timestamps :
                 timestamps[t] # None => timestamps'[t] # None]_vars

\* a cycle that supplied None for a TimeGroup whose cache holds a time, and
\* that at the same time cached the first time of another TimeGroup
C20_Witness ==
    /\ Returned
    /\ \E t, u \in DOMAIN timestamps :
           /\ t \in Keys(scraped_time)
           /\ Get(scraped_time, t) = None
           /\ timestamps[t] # None
           /\ ~update_flag[t]
           /\ u \in Keys(scraped_time)
           /\ update_flag[u]
           /\ timestamps[u] = Get(scraped_time, u)

====
